---- MODULE Spec2Model ----
(***************************************************************************)
(* A model of the book-details web service: the boundary handler           *)
(* BookDetailHandler, the sequential and the concurrent (fan-out/fan-in)   *)
(* orchestrators, the four database fetchers and the data store they read. *)
(* The earlier build kept in main.go, whose fetchers sleep and return      *)
(* sample bags, is modelled by the same handlers over no store.            *)
(*                                                                         *)
(* Conventions.                                                            *)
(*  - A URL path is a sequence of tokens; the token "/" is the separator   *)
(*    and every other token is a separator-free, non-empty piece of text.  *)
(*  - An attribute bag (Go: map[string]interface{}) is a TLA+ record; the  *)
(*    nil map is the function with the empty domain.                       *)
(*  - Decimal columns are written in hundredths (39.99 is 3999).           *)
(*  - The wall clock is a counter of milliseconds.                         *)
(***************************************************************************)
EXTENDS Integers, Sequences, FiniteSets, TLC

\* ------------------------------------------------------------------ bounds

\* The clock stops advancing at MaxClock milliseconds.
MaxClock == 2

\* The longest least time a query is given, in milliseconds.
MaxLatency == 1

\* The number of times the server is started.
MaxStarts == 3

\* ------------------------------------------------------------- data store

Tables == {"books", "pricing", "inventory", "reviews"}

\* The ids populateInitialData seeds, in insertion order.
SeedIds == <<"1", "2", "3", "4">>

\* The order in which populateInitialData fills the tables.
SeedTables == <<"books", "pricing", "inventory", "reviews">>

\* The seeded rows of the books table.
SeedBooks ==
    "1" :> [title |-> "The Go Programming Language", author |-> "Alan Donovan",
            isbn |-> "978-0134190440", publish_date |-> "2015-11-16",
            description |-> "The authoritative resource to writing clear and idiomatic Go"]
 @@ "2" :> [title |-> "Clean Code", author |-> "Robert Martin",
            isbn |-> "978-0132350884", publish_date |-> "2008-08-11",
            description |-> "A handbook of agile software craftsmanship"]
 @@ "3" :> [title |-> "System Design Interview", author |-> "Alex Xu",
            isbn |-> "978-1736049112", publish_date |-> "2020-06-04",
            description |-> "An insider's guide to system design interviews"]
 @@ "4" :> [title |-> "Dopamine Nation", author |-> "Anna Lembke",
            isbn |-> "978-1524746728", publish_date |-> "2021-08-24",
            description |-> "Finding balance in the age of indulgence"]

\* The seeded rows of the pricing table; currency is the column default.
SeedPricing ==
    "1" :> [price |-> 3999, currency |-> "USD", discount |-> 10,
            sale_price |-> 3599, promotion |-> "Holiday Sale"]
 @@ "2" :> [price |-> 3250, currency |-> "USD", discount |-> 5,
            sale_price |-> 3088, promotion |-> "Member Discount"]
 @@ "3" :> [price |-> 2895, currency |-> "USD", discount |-> 0,
            sale_price |-> 2895, promotion |-> ""]
 @@ "4" :> [price |-> 2000, currency |-> "USD", discount |-> 15,
            sale_price |-> 1700, promotion |-> "Limited Time"]

\* The seeded rows of the inventory table.
SeedInventory ==
    "1" :> [in_stock |-> TRUE, quantity |-> 42, warehouse |-> "East Coast DC",
            shipping_time |-> "2-3 business days"]
 @@ "2" :> [in_stock |-> TRUE, quantity |-> 38, warehouse |-> "Central DC",
            shipping_time |-> "1-2 business days"]
 @@ "3" :> [in_stock |-> TRUE, quantity |-> 15, warehouse |-> "West Coast DC",
            shipping_time |-> "3-4 business days"]
 @@ "4" :> [in_stock |-> FALSE, quantity |-> 0, warehouse |-> "Back Order",
            shipping_time |-> "2-3 weeks"]

\* The seeded rows of the reviews table.
SeedReviews ==
    "1" :> [average_rating |-> 450, total_reviews |-> 89,
            recent_review |-> "Essential reading for Go developers",
            five_star |-> 45, four_star |-> 28, three_star |-> 12,
            two_star |-> 3, one_star |-> 1]
 @@ "2" :> [average_rating |-> 430, total_reviews |-> 127,
            recent_review |-> "Changed how I think about writing code",
            five_star |-> 65, four_star |-> 32, three_star |-> 20,
            two_star |-> 7, one_star |-> 3]
 @@ "3" :> [average_rating |-> 470, total_reviews |-> 56,
            recent_review |-> "Incredibly helpful for interview prep",
            five_star |-> 38, four_star |-> 14, three_star |-> 3,
            two_star |-> 1, one_star |-> 0]
 @@ "4" :> [average_rating |-> 410, total_reviews |-> 94,
            recent_review |-> "Eye-opening perspective on modern life",
            five_star |-> 42, four_star |-> 31, three_star |-> 15,
            two_star |-> 4, one_star |-> 2]

\* The number of INSERT statements one full run of populateInitialData issues.
SeedInserts == Len(SeedTables) * Len(SeedIds)

\* The table and the id of the k-th INSERT of populateInitialData.
InsertTable(k) == SeedTables[((k - 1) \div Len(SeedIds)) + 1]
InsertId(k) == SeedIds[((k - 1) % Len(SeedIds)) + 1]

\* The store after the first k INSERTs: per table, the ids that have a row.
\* Row contents are those of the seed (INSERT OR IGNORE never rewrites a row).
populateInitialData(k) ==
    [t \in Tables |-> {InsertId(i) : i \in {j \in 1..k : InsertTable(j) = t}}]

\* The stores the server can be serving from. initializeDatabaseIfNeeded
\* skips the setup as soon as the books table holds a row, so a run that was
\* interrupted after k >= 1 INSERTs leaves the store as it is for every
\* later start; an uninterrupted run leaves all SeedInserts rows. For one
\* id, what the four fetchers find changes only when a table is completed,
\* so the interruptions taken are those at the end of a table.
initializeDatabaseIfNeeded ==
    {populateInitialData(k) :
        k \in {n \in 1..SeedInserts : n % Len(SeedIds) = 0}}

\* --------------------------------------------------------------- fetchers

\* The nil map: a bag that was never assigned.
NilMap == << >>

\* A faulty FetchBookMetadata: the error bag also names the id.
FetchBookMetadataErrorDetail(store, bookID) ==
    IF bookID \in store["books"]
    THEN [title |-> SeedBooks[bookID].title,
          author |-> SeedBooks[bookID].author,
          isbn |-> SeedBooks[bookID].isbn,
          publish_date |-> SeedBooks[bookID].publish_date,
          description |-> SeedBooks[bookID].description]
    ELSE [error |-> "Failed to fetch book metadata", book_id |-> bookID]

\* FetchBookMetadata: the row of the books table, or an error bag when
\* QueryRow(...).Scan fails (no row for bookID).
FetchBookMetadata(store, bookID) ==
    IF bookID \in store["books"]
    THEN [title |-> SeedBooks[bookID].title,
          author |-> SeedBooks[bookID].author,
          isbn |-> SeedBooks[bookID].isbn,
          publish_date |-> SeedBooks[bookID].publish_date,
          description |-> SeedBooks[bookID].description]
    ELSE [error |-> "Failed to fetch book metadata"]

\* FetchBookPricing: the row of the pricing table, or an error bag.
FetchBookPricing(store, bookID) ==
    IF bookID \in store["pricing"]
    THEN [price |-> SeedPricing[bookID].price,
          currency |-> SeedPricing[bookID].currency,
          discount |-> SeedPricing[bookID].discount,
          sale_price |-> SeedPricing[bookID].sale_price,
          promotion |-> SeedPricing[bookID].promotion]
    ELSE [error |-> "Failed to fetch pricing information"]

\* A faulty FetchBookInventory: the Scan error is dropped and the zero row
\* is returned for an id without a row.
FetchBookInventoryZeroRow(store, bookID) ==
    IF bookID \in store["inventory"]
    THEN [in_stock |-> SeedInventory[bookID].in_stock,
          quantity |-> SeedInventory[bookID].quantity,
          warehouse |-> SeedInventory[bookID].warehouse,
          shipping_time |-> SeedInventory[bookID].shipping_time]
    ELSE [in_stock |-> FALSE, quantity |-> 0, warehouse |-> "",
          shipping_time |-> ""]

\* FetchBookInventory: the row of the inventory table, or an error bag.
FetchBookInventory(store, bookID) ==
    IF bookID \in store["inventory"]
    THEN [in_stock |-> SeedInventory[bookID].in_stock,
          quantity |-> SeedInventory[bookID].quantity,
          warehouse |-> SeedInventory[bookID].warehouse,
          shipping_time |-> SeedInventory[bookID].shipping_time]
    ELSE [error |-> "Failed to fetch inventory information"]

\* FetchBookReviews: the row of the reviews table with the star counts
\* nested under rating_breakdown, or an error bag.
FetchBookReviews(store, bookID) ==
    IF bookID \in store["reviews"]
    THEN [average_rating |-> SeedReviews[bookID].average_rating,
          total_reviews |-> SeedReviews[bookID].total_reviews,
          recent_review |-> SeedReviews[bookID].recent_review,
          rating_breakdown |->
              ( "5_star" :> SeedReviews[bookID].five_star
             @@ "4_star" :> SeedReviews[bookID].four_star
             @@ "3_star" :> SeedReviews[bookID].three_star
             @@ "2_star" :> SeedReviews[bookID].two_star
             @@ "1_star" :> SeedReviews[bookID].one_star )]
    ELSE [error |-> "Failed to fetch reviews"]

\* What the external quote API can do to a call.
ApiOutcomes == {"network_error", "parse_error", "ok"}

\* FetchPersonalizedRecommendations: one GET to the quote API; api is what
\* the API did. No handler calls this function.
FetchPersonalizedRecommendations(bookID, userID, api) ==
    CASE api = "network_error" ->
             [error |-> "Failed to fetch recommendations",
              source |-> "external_api_failed"]
      [] api = "parse_error" ->
             [error |-> "Failed to parse API response"]
      [] OTHER ->
             [user_id |-> userID,
              book_id |-> bookID,
              external_quote |-> <<[q |-> "quote", a |-> "author"]>>,
              recommendations |->
                  <<[title |-> "Based on your reading preferences...",
                     source |-> "external_api_enriched"]>>,
              api_source |-> "zenquotes.io"]

\* The four fetchers the orchestrators call, by name.
Fetchers == {"FetchBookMetadata", "FetchBookPricing",
             "FetchBookInventory", "FetchBookReviews"}

\* The table each database fetcher queries.
TableOf(f) ==
    CASE f = "FetchBookMetadata" -> "books"
      [] f = "FetchBookPricing" -> "pricing"
      [] f = "FetchBookInventory" -> "inventory"
      [] f = "FetchBookReviews" -> "reviews"

\* The earlier build of the server (the second program of main.go) has no
\* data store: its four fetchers sleep and return a fixed sample bag.
NoStore == << >>

\* fetchBookMetadata, fetchBookPricing, fetchBookInventory, fetchBookReviews
\* of the earlier build: the bag returned once the sleep is over.
fetchBookMetadata(bookID) ==
    [title |-> "Sample Book Title", author |-> "Sample Author",
     isbn |-> "978-0123456789", publish_date |-> "2023-01-15",
     description |-> "A detailed description of the book"]
fetchBookPricing(bookID) ==
    [price |-> 2999, currency |-> "USD", discount |-> 10,
     sale_price |-> 2699, promotion |-> "Limited time offer"]
fetchBookInventory(bookID) ==
    [in_stock |-> TRUE, quantity |-> 42,
     warehouse |-> "East Coast Distribution",
     shipping_time |-> "2-3 business days"]
fetchBookReviews(bookID) ==
    [average_rating |-> 430, total_reviews |-> 127,
     recent_review |-> "Great book, highly recommended!",
     rating_breakdown |->
         ( "5_star" :> 65 @@ "4_star" :> 32 @@ "3_star" :> 20
        @@ "2_star" :> 7 @@ "1_star" :> 3 )]

\* The time.Sleep of each fetcher of the earlier build, in milliseconds.
Sleep(f) ==
    CASE f = "FetchBookMetadata" -> 80
      [] f = "FetchBookPricing" -> 120
      [] f = "FetchBookInventory" -> 150
      [] f = "FetchBookReviews" -> 100

\* A call of fetcher f with bookID: against the store in the build of
\* database.go, of the same-named sample fetcher in the earlier build.
Fetch(f, store, bookID) ==
    IF store = NoStore
    THEN CASE f = "FetchBookMetadata" -> fetchBookMetadata(bookID)
           [] f = "FetchBookPricing" -> fetchBookPricing(bookID)
           [] f = "FetchBookInventory" -> fetchBookInventory(bookID)
           [] f = "FetchBookReviews" -> fetchBookReviews(bookID)
    ELSE CASE f = "FetchBookMetadata" -> FetchBookMetadata(store, bookID)
           [] f = "FetchBookPricing" -> FetchBookPricing(store, bookID)
           [] f = "FetchBookInventory" -> FetchBookInventory(store, bookID)
           [] f = "FetchBookReviews" -> FetchBookReviews(store, bookID)

\* A bag is an error bag when it carries the error key.
IsErrorBag(bag) == "error" \in DOMAIN bag

\* ------------------------------------------------------------ the request

\* strings.Split(s, sep) on a token sequence: the pieces between separators,
\* each piece a (possibly empty) token sequence.
RECURSIVE Split(_, _)
Split(s, sep) ==
    IF \A i \in 1..Len(s) : s[i] # sep
    THEN <<s>>
    ELSE LET i == CHOOSE n \in 1..Len(s) :
                      s[n] = sep /\ \A j \in 1..(n - 1) : s[j] # sep
         IN <<SubSeq(s, 1, i - 1)>> \o Split(SubSeq(s, i + 1, Len(s)), sep)

\* The text of a piece: "" for the empty piece, the token for a piece of one
\* token (no path below puts two tokens side by side without a separator).
Text(piece) == IF piece = << >> THEN "" ELSE piece[1]

\* url.Values.Get: the first value of key, "" when key has no value.
Get(values, key) ==
    IF key \in DOMAIN values /\ Len(values[key]) > 0
    THEN values[key][1]
    ELSE ""

\* The query string with the given values for mode and userId; a key with
\* no value at all is not in the map.
Query(modeValues, userValues) ==
    [k \in {key \in {"mode", "userId"} :
                \/ key = "mode" /\ modeValues # << >>
                \/ key = "userId" /\ userValues # << >>} |->
        IF k = "mode" THEN modeValues ELSE userValues]

\* The values a request gives for the mode parameter, none when it has no
\* such parameter.
SuppliedModeOf(q) ==
    IF "mode" \in DOMAIN q.query THEN q.query["mode"] ELSE << >>

\* Paths under /api/books/, the subtree main registers BookDetailHandler for.
Paths ==
    { <<"/", "api", "/", "books", "/", "1", "/", "details">>,
      <<"/", "api", "/", "books", "/", "9", "/", "details">>,
      <<"/", "api", "/", "books", "/", "1">>,
      <<"/", "api", "/", "books", "/">>,
      <<"/", "api", "/", "books", "/", "1", "/", "info">>,
      <<"/", "api", "/", "books", "/", "1", "/", "details", "/", "extra">>,
      <<"/", "api", "/", "books", "/", "/", "details">> }

Methods == {"GET", "POST", "CONNECT"}

\* A path is clean when it has no empty segment (dot segments are not
\* modelled).
CleanPath(path) ==
    \A i \in 1..(Len(path) - 1) : ~(path[i] = "/" /\ path[i + 1] = "/")

\* The paths a client can get to the handler with any method.
CleanPaths == {path \in Paths : CleanPath(path)}

\* The mode parameter: absent, empty, the two accepted spellings, a
\* differently-cased spelling, an unknown word.
ModeValues ==
    { << >>, <<"">>, <<"sequential">>, <<"concurrent">>, <<"Sequential">>,
      <<"parallel">> }

\* The userId parameter: absent or given.
UserValues == { << >>, <<"u1">> }

\* The requests that reach BookDetailHandler. main registers it on the
\* default ServeMux, which answers a request whose path is not clean with a
\* redirect to the clean path and never calls the handler, unless the
\* method is CONNECT: such a request is dispatched with its path as sent.
Requests ==
    {q \in [method : Methods, path : Paths,
            query : {Query(m, u) : m \in ModeValues, u \in UserValues}] :
        q.method = "CONNECT" \/ CleanPath(q.path)}

\* ----------------------------------------------------------- the response

\* The fields of BookDetailsResponse that hold a bag.
BagFields == {"Metadata", "Pricing", "Inventory", "Reviews", "Recommendations"}

\* A faulty BookDetailsResponse: a literal that leaves Reviews out.
BookDetailsResponseNoReviews(id, got, duration) ==
    [BookID |-> id,
     Metadata |-> got["Metadata"],
     Pricing |-> got["Pricing"],
     Inventory |-> got["Inventory"],
     Reviews |-> NilMap,
     Recommendations |-> NilMap,
     Duration |-> duration]

\* The struct literal both orchestrators build: the four bags they obtained
\* and the elapsed time; Recommendations is not in the literal and keeps its
\* zero value, the nil map.
BookDetailsResponse(id, got, duration) ==
    [BookID |-> id,
     Metadata |-> got["Metadata"],
     Pricing |-> got["Pricing"],
     Inventory |-> got["Inventory"],
     Reviews |-> got["Reviews"],
     Recommendations |-> NilMap,
     Duration |-> duration]

\* encoding/json on a map: null for the nil map, an object otherwise.
JsonMap(bag) ==
    IF bag = NilMap
    THEN [kind |-> "null"]
    ELSE [kind |-> "object", members |-> bag]

\* encoder.Encode(response): the document, keyed by the struct's json tags.
Encode(resp) ==
    [book_id |-> resp.BookID,
     metadata |-> JsonMap(resp.Metadata),
     pricing |-> JsonMap(resp.Pricing),
     inventory |-> JsonMap(resp.Inventory),
     reviews |-> JsonMap(resp.Reviews),
     recommendations |-> JsonMap(resp.Recommendations),
     duration |-> resp.Duration]

\* http.Error(w, msg, code).
HttpError(msg, code) == [status |-> code, error |-> msg]

\* A JSON document written without an explicit WriteHeader: status 200.
HttpJson(doc) == [status |-> 200, json |-> doc]

\* Nothing assigned or written yet.
Unset == << >>

\* ------------------------------------------------------- BookDetailHandler

\* The URL-format test of BookDetailHandler on the split path
\* (Go indexes from 0: pathParts[4] is the fifth piece).
InvalidURLFormat(pathParts) ==
    Len(pathParts) < 5 \/ Text(pathParts[5]) # "details"

\* A faulty ModeOf: no default for a missing mode.
ModeOfNoDefault(query) == Get(query, "mode")

\* The mode BookDetailHandler works with: the mode parameter, "sequential"
\* when Get returns the empty string.
ModeOf(query) ==
    LET mode == Get(query, "mode")
    IN IF mode = "" THEN "sequential" ELSE mode

\* A faulty Route: an unknown mode falls back to the sequential orchestrator.
RouteCoerce(mode) ==
    CASE mode = "concurrent" -> "handleConcurrentBookDetails"
      [] OTHER -> "handleSequentialBookDetails"

\* The switch on mode: the orchestrator to run, or the rejection.
Route(mode) ==
    CASE mode = "sequential" -> "handleSequentialBookDetails"
      [] mode = "concurrent" -> "handleConcurrentBookDetails"
      [] OTHER -> "invalid_mode"

\* ----------------------------------------------------- the orchestrators

\* Positions 1..4 of the calls, the go statements and the receives.
Positions == 1..Cardinality(Fetchers)

\* A faulty SeqFetcher: the third call repeats the pricing fetcher.
SeqFetcherRepeated(k) ==
    <<"FetchBookMetadata", "FetchBookPricing",
      "FetchBookPricing", "FetchBookReviews">>[k]

\* A faulty SeqFetcher: pricing is fetched before metadata.
SeqFetcherReordered(k) ==
    <<"FetchBookPricing", "FetchBookMetadata",
      "FetchBookInventory", "FetchBookReviews">>[k]

\* handleSequentialBookDetails: the fetcher of the k-th call and the
\* response field its result is put in.
SeqFetcher(k) ==
    <<"FetchBookMetadata", "FetchBookPricing",
      "FetchBookInventory", "FetchBookReviews">>[k]
SeqField(k) == <<"Metadata", "Pricing", "Inventory", "Reviews">>[k]

\* handleConcurrentBookDetails: the channels it makes.
Channels == {"metadataChannel", "pricingChannel",
             "inventoryChannel", "reviewsChannel"}

\* A faulty ChannelsOf: the four channels are made once, at package level,
\* and every call works with them.
ChannelsOfShared(r) == "r1"

\* The channels a call of handleConcurrentBookDetails works with are the four
\* it makes itself: the goroutines it launches send on them and its struct
\* literal receives from them. They are named by the request the call serves.
ChannelsOf(r) == r

\* A faulty GoChannel: the pricing goroutine sends on the metadata channel.
GoChannelShared(g) ==
    <<"metadataChannel", "metadataChannel",
      "inventoryChannel", "reviewsChannel">>[g]

\* A faulty GoFetcher: the inventory goroutine calls the pricing fetcher.
GoFetcherRepeated(g) ==
    <<"FetchBookMetadata", "FetchBookPricing",
      "FetchBookPricing", "FetchBookReviews">>[g]

\* The fetcher the g-th goroutine calls and the channel it sends on.
GoFetcher(g) ==
    <<"FetchBookMetadata", "FetchBookPricing",
      "FetchBookInventory", "FetchBookReviews">>[g]
GoChannel(g) ==
    <<"metadataChannel", "pricingChannel",
      "inventoryChannel", "reviewsChannel">>[g]

\* A faulty RecvField: the first two receives fill each other's field.
RecvFieldSwapped(k) == <<"Pricing", "Metadata", "Inventory", "Reviews">>[k]

\* A faulty RecvChannel: the second receive is from the metadata channel
\* again.
RecvChannelRepeated(k) ==
    <<"metadataChannel", "metadataChannel",
      "inventoryChannel", "reviewsChannel">>[k]

\* The channel of the k-th receive of the struct literal and the field the
\* received bag is put in.
RecvChannel(k) ==
    <<"metadataChannel", "pricingChannel",
      "inventoryChannel", "reviewsChannel">>[k]
RecvField(k) == <<"Metadata", "Pricing", "Inventory", "Reviews">>[k]

\* ------------------------------------------------------------------ state

\* The requests in flight at the same time.
Reqs == {"r1", "r2"}

VARIABLES
    db,        \* the data store: per table, the ids that have a row
    now,       \* the wall clock, in milliseconds
    req,       \* per request: the HTTP request, Unset before it arrives
    pc,        \* per request: where its handler is
    bookID,    \* per request: the id BookDetailHandler extracted
    startTime, \* per request: the orchestrator's startTime
    step,      \* per request: the next call, go statement or receive
    got,       \* per request: field -> the bag obtained for it so far
    task,      \* per request: goroutine -> "none", "ready", "fetching",
               \*   "sending" (blocked in its send) or "done"
    result,    \* per request: goroutine -> its local variable result
    finished,  \* per request: the goroutines in the order their fetches returned
    sendq,     \* per call of the concurrent orchestrator: channel -> the
               \*   goroutines <<request, position>> blocked sending on it
    sent,      \* per call, as sendq: channel -> the goroutines whose send
               \*   completed, in order
    received,  \* per call, as sendq: channel -> the number of receives completed
    invoked,   \* per request: fetcher -> the number of calls made to it
    response,  \* per request: the assembled struct, Unset before
    written,   \* per request: what was written to the ResponseWriter
    delay,     \* fetcher -> the least time a call of it takes, 0 for no
               \*   known least time
    due,       \* per request: fetcher -> the earliest time the call in
               \*   flight can return, 0 when no least time applies
    probe,     \* the last call made to a fetcher outside any request
    boot       \* InitializeDatabase: where it is, the INSERTs it has issued
               \*   in this run, whether it returned an error, and how many
               \*   times the server has been started

vars == <<db, now, req, pc, bookID, startTime, step, got, task, result,
          finished, sendq, sent, received, invoked, response, written,
          delay, due, probe, boot>>

\* InitializeDatabase has returned nil and main is serving.
Serving == [pc |-> "returned", k |-> 0, err |-> FALSE, starts |-> 1]

\* The earliest return time of a call made at time t to a fetcher that takes
\* at least d: t + d, and the previous value when no least time is known.
Wake(old, t, d) == IF d = 0 THEN old ELSE t + d

\* No request has arrived and no fetcher was called.
InitRequests ==
    /\ now = 0
    /\ req = [r \in Reqs |-> Unset]
    /\ pc = [r \in Reqs |-> "idle"]
    /\ bookID = [r \in Reqs |-> ""]
    /\ startTime = [r \in Reqs |-> 0]
    /\ step = [r \in Reqs |-> 1]
    /\ got = [r \in Reqs |-> [f \in BagFields |-> NilMap]]
    /\ task = [r \in Reqs |-> [g \in Positions |-> "none"]]
    /\ result = [r \in Reqs |-> [g \in Positions |-> NilMap]]
    /\ finished = [r \in Reqs |-> << >>]
    /\ sendq = [r \in Reqs |-> [c \in Channels |-> {}]]
    /\ sent = [r \in Reqs |-> [c \in Channels |-> << >>]]
    /\ received = [r \in Reqs |-> [c \in Channels |-> 0]]
    /\ invoked = [r \in Reqs |-> [f \in Fetchers |-> 0]]
    /\ response = [r \in Reqs |-> Unset]
    /\ written = [r \in Reqs |-> Unset]
    /\ due = [r \in Reqs |-> [f \in Fetchers |-> 0]]
    /\ probe = Unset

\* The server of database.go after InitializeDatabase; nothing is known
\* about how long a query takes.
Init ==
    /\ db \in initializeDatabaseIfNeeded
    /\ delay = [f \in Fetchers |-> 0]
    /\ boot = Serving
    /\ InitRequests

\* The clock advances.
Tick ==
    /\ now < MaxClock
    /\ now' = now + 1
    /\ UNCHANGED <<db, delay, due, probe, boot,
                   req, pc, bookID, startTime, step, got, task, result,
                   finished, sendq, sent, received, invoked, response,
                   written>>

\* A request for the /api/books/ subtree reaches the server.
Arrive(r) ==
    /\ pc[r] = "idle"
    /\ \E q \in Requests : req' = [req EXCEPT ![r] = q]
    /\ pc' = [pc EXCEPT ![r] = "BookDetailHandler"]
    /\ UNCHANGED <<db, delay, due, probe, boot,
                   now, bookID, startTime, step, got, task, result,
                   finished, sendq, sent, received, invoked, response,
                   written>>

\* BookDetailHandler up to the call of an orchestrator: split the path,
\* reject a bad format, take the id, read the mode, dispatch on it.
BookDetailHandler(r) ==
    /\ pc[r] = "BookDetailHandler"
    /\ LET pathParts == Split(req[r].path, "/")
       IN IF InvalidURLFormat(pathParts)
          THEN /\ written' = [written EXCEPT ![r] =
                     HttpError("Invalid URL Format. Expected /api/books/{id}/details", 400)]
               /\ pc' = [pc EXCEPT ![r] = "rejected"]
               /\ UNCHANGED bookID
          ELSE /\ bookID' = [bookID EXCEPT ![r] = Text(pathParts[4])]
               /\ IF Route(ModeOf(req[r].query)) = "invalid_mode"
                  THEN /\ written' = [written EXCEPT ![r] =
                             HttpError("Invalid mode. Use 'sequential' or 'concurrent'", 400)]
                       /\ pc' = [pc EXCEPT ![r] = "rejected"]
                  ELSE /\ pc' = [pc EXCEPT ![r] = Route(ModeOf(req[r].query))]
                       /\ UNCHANGED written
    /\ UNCHANGED <<db, delay, due, probe, boot,
                   now, req, startTime, step, got, task, result, finished,
                   sendq, sent, received, invoked, response>>

\* The position after which an orchestrator has made all its calls.
LastPosition == Cardinality(Fetchers)

\* handleSequentialBookDetails: startTime := time.Now().
SeqStart(r) ==
    /\ pc[r] = "handleSequentialBookDetails"
    /\ startTime' = [startTime EXCEPT ![r] = now]
    /\ step' = [step EXCEPT ![r] = 1]
    /\ pc' = [pc EXCEPT ![r] = "seq_call"]
    /\ UNCHANGED <<db, delay, due, probe, boot,
                   now, req, bookID, got, task, result, finished, sendq,
                   sent, received, invoked, response, written>>

\* handleSequentialBookDetails calls its next fetcher.
SeqCall(r) ==
    /\ pc[r] = "seq_call"
    /\ invoked' = [invoked EXCEPT ![r][SeqFetcher(step[r])] = @ + 1]
    /\ due' = [due EXCEPT ![r][SeqFetcher(step[r])] =
                   Wake(@, now, delay[SeqFetcher(step[r])])]
    /\ pc' = [pc EXCEPT ![r] = "seq_fetching"]
    /\ UNCHANGED <<db, delay, probe, boot,
                   now, req, bookID, startTime, step, got, task, result,
                   finished, sendq, sent, received, response, written>>

\* A faulty SeqReturn: an error bag ends the calls early.
SeqReturnAbortOnError(r) ==
    /\ pc[r] = "seq_fetching"
    /\ now >= due[r][SeqFetcher(step[r])]
    /\ got' = [got EXCEPT ![r][SeqField(step[r])] =
                   Fetch(SeqFetcher(step[r]), db, bookID[r])]
    /\ IF \/ step[r] = LastPosition
          \/ IsErrorBag(Fetch(SeqFetcher(step[r]), db, bookID[r]))
       THEN /\ pc' = [pc EXCEPT ![r] = "seq_assemble"]
            /\ UNCHANGED step
       ELSE /\ pc' = [pc EXCEPT ![r] = "seq_call"]
            /\ step' = [step EXCEPT ![r] = @ + 1]
    /\ UNCHANGED <<db, delay, due, probe, boot,
                   now, req, bookID, startTime, task, result, finished,
                   sendq, sent, received, invoked, response, written>>

\* A faulty SeqReturn: the fetcher takes the row it read out of its table.
SeqReturnConsumesRow(r) ==
    /\ pc[r] = "seq_fetching"
    /\ now >= due[r][SeqFetcher(step[r])]
    /\ got' = [got EXCEPT ![r][SeqField(step[r])] =
                   Fetch(SeqFetcher(step[r]), db, bookID[r])]
    /\ db' = [db EXCEPT ![TableOf(SeqFetcher(step[r]))] = @ \ {bookID[r]}]
    /\ IF step[r] = LastPosition
       THEN /\ pc' = [pc EXCEPT ![r] = "seq_assemble"]
            /\ UNCHANGED step
       ELSE /\ pc' = [pc EXCEPT ![r] = "seq_call"]
            /\ step' = [step EXCEPT ![r] = @ + 1]
    /\ UNCHANGED <<delay, due, probe, boot,
                   now, req, bookID, startTime, task, result, finished,
                   sendq, sent, received, invoked, response, written>>

\* The fetcher returns its bag to handleSequentialBookDetails.
SeqReturn(r) ==
    /\ pc[r] = "seq_fetching"
    /\ now >= due[r][SeqFetcher(step[r])]
    /\ got' = [got EXCEPT ![r][SeqField(step[r])] =
                   Fetch(SeqFetcher(step[r]), db, bookID[r])]
    /\ IF step[r] = LastPosition
       THEN /\ pc' = [pc EXCEPT ![r] = "seq_assemble"]
            /\ UNCHANGED step
       ELSE /\ pc' = [pc EXCEPT ![r] = "seq_call"]
            /\ step' = [step EXCEPT ![r] = @ + 1]
    /\ UNCHANGED <<db, delay, due, probe, boot,
                   now, req, bookID, startTime, task, result, finished,
                   sendq, sent, received, invoked, response, written>>

\* handleSequentialBookDetails builds the response, Duration last.
SeqAssemble(r) ==
    /\ pc[r] = "seq_assemble"
    /\ response' = [response EXCEPT ![r] =
                        BookDetailsResponse(bookID[r], got[r], now - startTime[r])]
    /\ pc' = [pc EXCEPT ![r] = "seq_encode"]
    /\ UNCHANGED <<db, delay, due, probe, boot,
                   now, req, bookID, startTime, step, got, task, result,
                   finished, sendq, sent, received, invoked, written>>

\* handleSequentialBookDetails writes the response and returns.
SeqEncode(r) ==
    /\ pc[r] = "seq_encode"
    /\ written' = [written EXCEPT ![r] = HttpJson(Encode(response[r]))]
    /\ pc' = [pc EXCEPT ![r] = "seq_returned"]
    /\ UNCHANGED <<db, delay, due, probe, boot,
                   now, req, bookID, startTime, step, got, task, result,
                   finished, sendq, sent, received, invoked, response>>

\* handleConcurrentBookDetails: startTime := time.Now() and the four
\* unbuffered channels.
ConcStart(r) ==
    /\ pc[r] = "handleConcurrentBookDetails"
    /\ startTime' = [startTime EXCEPT ![r] = now]
    /\ step' = [step EXCEPT ![r] = 1]
    /\ pc' = [pc EXCEPT ![r] = "conc_go"]
    /\ UNCHANGED <<db, delay, due, probe, boot,
                   now, req, bookID, got, task, result, finished, sendq,
                   sent, received, invoked, response, written>>

\* A faulty ConcGo: startTime is read again after the last go statement.
ConcGoThenStart(r) ==
    /\ pc[r] = "conc_go"
    /\ task' = [task EXCEPT ![r][step[r]] = "ready"]
    /\ IF step[r] = LastPosition
       THEN /\ pc' = [pc EXCEPT ![r] = "conc_recv"]
            /\ step' = [step EXCEPT ![r] = 1]
            /\ startTime' = [startTime EXCEPT ![r] = now]
       ELSE /\ step' = [step EXCEPT ![r] = @ + 1]
            /\ UNCHANGED <<pc, startTime>>
    /\ UNCHANGED <<db, delay, due, probe, boot,
                   now, req, bookID, got, result, finished,
                   sendq, sent, received, invoked, response, written>>

\* handleConcurrentBookDetails executes its next go statement.
ConcGo(r) ==
    /\ pc[r] = "conc_go"
    /\ task' = [task EXCEPT ![r][step[r]] = "ready"]
    /\ IF step[r] = LastPosition
       THEN /\ pc' = [pc EXCEPT ![r] = "conc_recv"]
            /\ step' = [step EXCEPT ![r] = 1]
       ELSE /\ step' = [step EXCEPT ![r] = @ + 1]
            /\ UNCHANGED pc
    /\ UNCHANGED <<db, delay, due, probe, boot,
                   now, req, bookID, startTime, got, result, finished,
                   sendq, sent, received, invoked, response, written>>

\* A faulty GoFetch: the fetchers are called under one lock, so a goroutine
\* gets to call its fetcher only when those launched before it have theirs
\* back.
GoFetchUnderLock(r, g) ==
    /\ task[r][g] = "ready"
    /\ \A h \in 1..(g - 1) : task[r][h] \in {"sending", "done"}
    /\ task' = [task EXCEPT ![r][g] = "fetching"]
    /\ invoked' = [invoked EXCEPT ![r][GoFetcher(g)] = @ + 1]
    /\ due' = [due EXCEPT ![r][GoFetcher(g)] =
                   Wake(@, now, delay[GoFetcher(g)])]
    /\ UNCHANGED <<db, delay, probe, boot,
                   now, req, pc, bookID, startTime, step, got, result,
                   finished, sendq, sent, received, response, written>>

\* Goroutine g starts running: it calls its fetcher.
GoFetch(r, g) ==
    /\ task[r][g] = "ready"
    /\ task' = [task EXCEPT ![r][g] = "fetching"]
    /\ invoked' = [invoked EXCEPT ![r][GoFetcher(g)] = @ + 1]
    /\ due' = [due EXCEPT ![r][GoFetcher(g)] =
                   Wake(@, now, delay[GoFetcher(g)])]
    /\ UNCHANGED <<db, delay, probe, boot,
                   now, req, pc, bookID, startTime, step, got, result,
                   finished, sendq, sent, received, response, written>>

\* The fetcher returns to goroutine g, which blocks in its send.
GoSend(r, g) ==
    /\ task[r][g] = "fetching"
    /\ now >= due[r][GoFetcher(g)]
    /\ result' = [result EXCEPT ![r][g] = Fetch(GoFetcher(g), db, bookID[r])]
    /\ finished' = [finished EXCEPT ![r] = Append(@, g)]
    /\ sendq' = [sendq EXCEPT ![ChannelsOf(r)][GoChannel(g)] = @ \cup {<<r, g>>}]
    /\ task' = [task EXCEPT ![r][g] = "sending"]
    /\ UNCHANGED <<db, delay, due, probe, boot,
                   now, req, pc, bookID, startTime, step, got, sent,
                   received, invoked, response, written>>

\* A faulty ConcRecv: a receive that does not block (a select with a default
\* branch), leaving the field empty when no goroutine is sending yet.
ConcRecvNoWait(r) ==
    /\ pc[r] = "conc_recv"
    /\ LET c == RecvChannel(step[r])
           o == ChannelsOf(r)
       IN IF sendq[o][c] = {}
          THEN UNCHANGED <<got, sendq, sent, received, task>>
          ELSE \E s \in sendq[o][c] :
                 /\ got' = [got EXCEPT ![r][RecvField(step[r])] =
                                result[s[1]][s[2]]]
                 /\ sendq' = [sendq EXCEPT ![o][c] = @ \ {s}]
                 /\ sent' = [sent EXCEPT ![o][c] = Append(@, s)]
                 /\ received' = [received EXCEPT ![o][c] = @ + 1]
                 /\ task' = [task EXCEPT ![s[1]][s[2]] = "done"]
    /\ IF step[r] = LastPosition
       THEN /\ pc' = [pc EXCEPT ![r] = "conc_assemble"]
            /\ UNCHANGED step
       ELSE /\ step' = [step EXCEPT ![r] = @ + 1]
            /\ UNCHANGED pc
    /\ UNCHANGED <<db, delay, due, probe, boot,
                   now, req, bookID, startTime, result, finished,
                   invoked, response, written>>

\* A faulty ConcRecv: the struct literal has no receive for the last channel.
ConcRecvSkipsLast(r) ==
    /\ pc[r] = "conc_recv"
    /\ LET c == RecvChannel(step[r])
           o == ChannelsOf(r)
       IN \E s \in sendq[o][c] :
            /\ got' = [got EXCEPT ![r][RecvField(step[r])] =
                           result[s[1]][s[2]]]
            /\ sendq' = [sendq EXCEPT ![o][c] = @ \ {s}]
            /\ sent' = [sent EXCEPT ![o][c] = Append(@, s)]
            /\ received' = [received EXCEPT ![o][c] = @ + 1]
            /\ task' = [task EXCEPT ![s[1]][s[2]] = "done"]
    /\ IF step[r] = LastPosition - 1
       THEN /\ pc' = [pc EXCEPT ![r] = "conc_assemble"]
            /\ UNCHANGED step
       ELSE /\ step' = [step EXCEPT ![r] = @ + 1]
            /\ UNCHANGED pc
    /\ UNCHANGED <<db, delay, due, probe, boot,
                   now, req, bookID, startTime, result, finished, invoked,
                   response, written>>

\* A faulty ConcRecv: the orchestrator takes the bags as they come (a select
\* over the four channels), each into the field of its channel.
ConcRecvAsTheyCome(r) ==
    /\ pc[r] = "conc_recv"
    /\ LET o == ChannelsOf(r)
       IN \E k \in Positions : \E s \in sendq[o][RecvChannel(k)] :
            /\ got' = [got EXCEPT ![r][RecvField(k)] = result[s[1]][s[2]]]
            /\ sendq' = [sendq EXCEPT ![o][RecvChannel(k)] = @ \ {s}]
            /\ sent' = [sent EXCEPT ![o][RecvChannel(k)] = Append(@, s)]
            /\ received' = [received EXCEPT ![o][RecvChannel(k)] = @ + 1]
            /\ task' = [task EXCEPT ![s[1]][s[2]] = "done"]
    /\ IF step[r] = LastPosition
       THEN /\ pc' = [pc EXCEPT ![r] = "conc_assemble"]
            /\ UNCHANGED step
       ELSE /\ step' = [step EXCEPT ![r] = @ + 1]
            /\ UNCHANGED pc
    /\ UNCHANGED <<db, delay, due, probe, boot,
                   now, req, bookID, startTime, result, finished, invoked,
                   response, written>>

\* The next receive of the struct literal meets a goroutine blocked sending
\* on that channel: the bag is handed over and the goroutine ends.
ConcRecv(r) ==
    /\ pc[r] = "conc_recv"
    /\ LET c == RecvChannel(step[r])
           o == ChannelsOf(r)
       IN \E s \in sendq[o][c] :
            /\ got' = [got EXCEPT ![r][RecvField(step[r])] =
                           result[s[1]][s[2]]]
            /\ sendq' = [sendq EXCEPT ![o][c] = @ \ {s}]
            /\ sent' = [sent EXCEPT ![o][c] = Append(@, s)]
            /\ received' = [received EXCEPT ![o][c] = @ + 1]
            /\ task' = [task EXCEPT ![s[1]][s[2]] = "done"]
    /\ IF step[r] = LastPosition
       THEN /\ pc' = [pc EXCEPT ![r] = "conc_assemble"]
            /\ UNCHANGED step
       ELSE /\ step' = [step EXCEPT ![r] = @ + 1]
            /\ UNCHANGED pc
    /\ UNCHANGED <<db, delay, due, probe, boot,
                   now, req, bookID, startTime, result, finished, invoked,
                   response, written>>

\* handleConcurrentBookDetails finishes the struct literal with Duration.
ConcAssemble(r) ==
    /\ pc[r] = "conc_assemble"
    /\ response' = [response EXCEPT ![r] =
                        BookDetailsResponse(bookID[r], got[r], now - startTime[r])]
    /\ pc' = [pc EXCEPT ![r] = "conc_encode"]
    /\ UNCHANGED <<db, delay, due, probe, boot,
                   now, req, bookID, startTime, step, got, task, result,
                   finished, sendq, sent, received, invoked, written>>

\* handleConcurrentBookDetails writes the response and returns.
ConcEncode(r) ==
    /\ pc[r] = "conc_encode"
    /\ written' = [written EXCEPT ![r] = HttpJson(Encode(response[r]))]
    /\ pc' = [pc EXCEPT ![r] = "conc_returned"]
    /\ UNCHANGED <<db, delay, due, probe, boot,
                   now, req, bookID, startTime, step, got, task, result,
                   finished, sendq, sent, received, invoked, response>>

\* One request is served.
Served == {"r1"}

Next ==
    \/ Tick
    \/ \E r \in Served :
         \/ Arrive(r)
         \/ BookDetailHandler(r)
         \/ SeqStart(r)
         \/ SeqCall(r)
         \/ SeqReturn(r)
         \/ SeqAssemble(r)
         \/ SeqEncode(r)
         \/ ConcStart(r)
         \/ ConcGo(r)
         \/ \E g \in Positions : GoFetch(r, g)
         \/ \E g \in Positions : GoSend(r, g)
         \/ ConcRecv(r)
         \/ ConcAssemble(r)
         \/ ConcEncode(r)

Spec == Init /\ [][Next]_vars

\* Where a request is once BookDetailHandler has returned.
Returned == {"rejected", "seq_returned", "conc_returned"}

\* The mode values that select the sequential orchestrator and the one that
\* selects the concurrent orchestrator.
SeqModes == {<< >>, <<"sequential">>}
ConcModes == {<<"concurrent">>}

\* A client asks for the details of one book in both modes, one request
\* after the other. ArriveFirst: its first GET, in either mode.
ArriveFirst ==
    /\ pc["r1"] = "idle"
    /\ \E path \in CleanPaths : \E mode \in SeqModes \cup ConcModes :
         req' = [req EXCEPT !["r1"] =
                    [method |-> "GET", path |-> path,
                     query |-> Query(mode, << >>)]]
    /\ pc' = [pc EXCEPT !["r1"] = "BookDetailHandler"]
    /\ UNCHANGED <<db, delay, due, probe, boot,
                   now, bookID, startTime, step, got, task, result,
                   finished, sendq, sent, received, invoked, response,
                   written>>

\* ArriveSecond: once the first GET is answered, the same GET in the other
\* mode.
ArriveSecond ==
    /\ pc["r1"] \in Returned
    /\ pc["r2"] = "idle"
    /\ \E mode \in IF SuppliedModeOf(req["r1"]) \in ConcModes
                    THEN SeqModes ELSE ConcModes :
         req' = [req EXCEPT !["r2"] =
                    [method |-> "GET", path |-> req["r1"].path,
                     query |-> Query(mode, << >>)]]
    /\ pc' = [pc EXCEPT !["r2"] = "BookDetailHandler"]
    /\ UNCHANGED <<db, delay, due, probe, boot,
                   now, bookID, startTime, step, got, task, result,
                   finished, sendq, sent, received, invoked, response,
                   written>>

\* Both requests are served.
NextEquiv ==
    \/ Tick
    \/ ArriveFirst
    \/ ArriveSecond
    \/ \E r \in Reqs :
         \/ BookDetailHandler(r)
         \/ SeqStart(r)
         \/ SeqCall(r)
         \/ SeqReturn(r)
         \/ SeqAssemble(r)
         \/ SeqEncode(r)
         \/ ConcStart(r)
         \/ ConcGo(r)
         \/ \E g \in Positions : GoFetch(r, g)
         \/ \E g \in Positions : GoSend(r, g)
         \/ ConcRecv(r)
         \/ ConcAssemble(r)
         \/ ConcEncode(r)

SpecEquiv == Init /\ [][NextEquiv]_vars

\* ------------------------------------------- the fetchers called directly

\* The ids and user ids the fetchers are called with: the seeded ids, an
\* unseeded id and the empty string.
ProbeIds == {SeedIds[i] : i \in 1..Len(SeedIds)} \cup {"9", ""}
ProbeUsers == {"u1", ""}

\* A database fetcher is called with some id; failed records whether
\* QueryRow(...).Scan returned an error, which it does when no row matches.
CallFetcher(f) ==
    /\ \E id \in ProbeIds :
         probe' = [fetcher |-> f, bookID |-> id, userID |-> "",
                   failure |-> IF id \in db[TableOf(f)]
                               THEN "none" ELSE "scan_error",
                   bag |-> Fetch(f, db, id)]
    /\ UNCHANGED <<db, now, req, pc, bookID, startTime, step, got, task,
                   result, finished, sendq, sent, received, invoked,
                   response, written, delay, due, boot>>

\* FetchPersonalizedRecommendations is called; the quote API fails in the
\* GET, answers with something that does not parse, or answers well.
CallRecommendations ==
    /\ \E id \in ProbeIds : \E user \in ProbeUsers : \E api \in ApiOutcomes :
         probe' = [fetcher |-> "FetchPersonalizedRecommendations",
                   bookID |-> id, userID |-> user,
                   failure |-> IF api = "ok" THEN "none" ELSE api,
                   bag |-> FetchPersonalizedRecommendations(id, user, api)]
    /\ UNCHANGED <<db, now, req, pc, bookID, startTime, step, got, task,
                   result, finished, sendq, sent, received, invoked,
                   response, written, delay, due, boot>>

\* The five fetchers are called in any order with any input.
NextFetch ==
    \/ \E f \in Fetchers : CallFetcher(f)
    \/ CallRecommendations

SpecFetch == Init /\ [][NextFetch]_vars

\* ------------------------------------- concurrent requests, different ids

\* The id BookDetailHandler takes from a path.
IdOf(path) == Text(Split(path, "/")[4])

\* The clean paths whose format BookDetailHandler accepts.
DetailPaths == {path \in CleanPaths : ~InvalidURLFormat(Split(path, "/"))}

\* A GET in concurrent mode arrives, for an id no other request in flight
\* asks for.
ArriveConcurrent(r) ==
    /\ pc[r] = "idle"
    /\ \E path \in DetailPaths :
         /\ \A o \in Reqs \ {r} :
                req[o] # Unset => IdOf(req[o].path) # IdOf(path)
         /\ req' = [req EXCEPT ![r] =
                       [method |-> "GET", path |-> path,
                        query |-> Query(<<"concurrent">>, << >>)]]
    /\ pc' = [pc EXCEPT ![r] = "BookDetailHandler"]
    /\ UNCHANGED <<db, delay, due, probe, boot,
                   now, bookID, startTime, step, got, task, result,
                   finished, sendq, sent, received, invoked, response,
                   written>>

\* The server runs one handler per request, all at the same time.
NextMulti ==
    \E r \in Reqs :
        \/ ArriveConcurrent(r)
        \/ BookDetailHandler(r)
        \/ ConcStart(r)
        \/ ConcGo(r)
        \/ \E g \in Positions : GoFetch(r, g)
        \/ \E g \in Positions : GoSend(r, g)
        \/ ConcRecv(r)
        \/ ConcAssemble(r)
        \/ ConcEncode(r)

\* The server after an uninterrupted InitializeDatabase.
InitSeeded ==
    /\ db = populateInitialData(SeedInserts)
    /\ delay = [f \in Fetchers |-> 0]
    /\ boot = Serving
    /\ InitRequests

SpecMulti == InitSeeded /\ [][NextMulti]_vars

\* ------------------------------------------ the earlier build, on a clock

\* The earlier build of the server: no store, every fetcher sleeps. Its
\* handlers are those of the later build word for word, calling the sample
\* fetchers; its response struct lacks the Recommendations field, which the
\* later build never fills, so its document is the one modelled here without
\* the recommendations member.
InitTimed ==
    /\ db = NoStore
    /\ delay = [f \in Fetchers |-> Sleep(f)]
    /\ boot = Serving
    /\ InitRequests

\* One step of the handler serving r or of one of its goroutines.
Serve(r) ==
    \/ BookDetailHandler(r)
    \/ SeqStart(r)
    \/ SeqCall(r)
    \/ SeqReturn(r)
    \/ SeqAssemble(r)
    \/ SeqEncode(r)
    \/ ConcStart(r)
    \/ ConcGo(r)
    \/ \E g \in Positions : GoFetch(r, g)
    \/ \E g \in Positions : GoSend(r, g)
    \/ ConcRecv(r)
    \/ ConcAssemble(r)
    \/ ConcEncode(r)

\* The times at which a sleep still under way ends.
Pending == {t \in {due[r][f] : r \in Reqs, f \in Fetchers} : t > now}

\* Time passes without overhead: only while every handler and goroutine is
\* asleep or blocked, and then up to the end of the sleep that ends first.
TimedTick ==
    /\ Pending # {}
    /\ ~ENABLED (\E r \in Reqs : Serve(r))
    /\ now' = CHOOSE t \in Pending : \A u \in Pending : t <= u
    /\ UNCHANGED <<db, delay, due, probe, boot,
                   req, pc, bookID, startTime, step, got, task, result,
                   finished, sendq, sent, received, invoked, response,
                   written>>

\* A client asks for the details of one book in both modes, one request
\* after the other, of the earlier build.
NextTimed ==
    \/ TimedTick
    \/ ArriveFirst
    \/ ArriveSecond
    \/ \E r \in Reqs : Serve(r)

SpecTimed == InitTimed /\ [][NextTimed]_vars

\* ------------------------------------------------------ a request repeated

\* Once the first GET is answered, the client sends the same GET again.
ArriveAgain ==
    /\ pc["r1"] \in Returned
    /\ pc["r2"] = "idle"
    /\ req' = [req EXCEPT !["r2"] = req["r1"]]
    /\ pc' = [pc EXCEPT !["r2"] = "BookDetailHandler"]
    /\ UNCHANGED <<db, delay, due, probe, boot,
                   now, bookID, startTime, step, got, task, result,
                   finished, sendq, sent, received, invoked, response,
                   written>>

NextRepeat ==
    \/ Tick
    \/ ArriveFirst
    \/ ArriveAgain
    \/ \E r \in Reqs : Serve(r)

SpecRepeat == InitSeeded /\ [][NextRepeat]_vars

\* ----------------------------------------------- queries that take time

\* The server of database.go when each query takes at least some time of
\* its own: none known, or MaxLatency.
InitLatency ==
    /\ db = populateInitialData(SeedInserts)
    /\ delay \in [Fetchers -> {0, MaxLatency}]
    /\ boot = Serving
    /\ InitRequests

\* One GET is served while the clock advances at any point.
NextLatency ==
    \/ Tick
    \/ ArriveFirst
    \/ \E r \in Served : Serve(r)

SpecLatency == InitLatency /\ [][NextLatency]_vars

\* ------------------------------------------ the concurrent orchestrator runs

\* Either build of the server: that of database.go over any store it can be
\* serving from, or the earlier one, whose fetchers sleep.
InitLive == Init \/ InitTimed

\* One GET in concurrent mode is served; in the earlier build time passes
\* while everything sleeps or is blocked.
NextLive ==
    \/ TimedTick
    \/ \E r \in Served :
         \/ ArriveConcurrent(r)
         \/ BookDetailHandler(r)
         \/ ConcStart(r)
         \/ ConcGo(r)
         \/ \E g \in Positions : GoFetch(r, g)
         \/ \E g \in Positions : GoSend(r, g)
         \/ ConcRecv(r)
         \/ ConcAssemble(r)
         \/ ConcEncode(r)

\* The Go scheduler runs every goroutine that can run: the handler's own
\* goroutine takes its next step when it can, a launched goroutine gets to
\* call its fetcher, a sleep ends, and every call of a fetcher returns.
FairLive ==
    /\ WF_vars(TimedTick)
    /\ \A r \in Served :
         /\ WF_vars(BookDetailHandler(r))
         /\ WF_vars(ConcStart(r))
         /\ WF_vars(ConcGo(r))
         /\ WF_vars(ConcRecv(r))
         /\ WF_vars(ConcAssemble(r))
         /\ WF_vars(ConcEncode(r))
         /\ \A g \in Positions :
              /\ WF_vars(GoFetch(r, g))
              /\ WF_vars(GoSend(r, g))

SpecLive == InitLive /\ [][NextLive]_vars /\ FairLive

\* ----------------------------------------------------- InitializeDatabase

\* A new database file, and the server not started yet.
InitBoot ==
    /\ db = [t \in Tables |-> {}]
    /\ delay = [f \in Fetchers |-> 0]
    /\ boot = [pc |-> "down", k |-> 0, err |-> FALSE, starts |-> 0]
    /\ InitRequests

\* main starts and calls InitializeDatabase, which opens the file.
InitializeDatabase ==
    /\ boot.pc = "down"
    /\ boot.starts < MaxStarts
    /\ boot' = [pc |-> "count", k |-> 0, err |-> FALSE,
                starts |-> boot.starts + 1]
    /\ UNCHANGED <<db, delay, due, probe,
                   now, req, pc, bookID, startTime, step, got, task, result,
                   finished, sendq, sent, received, invoked, response,
                   written>>

\* initializeDatabaseIfNeeded counts the rows of books: with a row there it
\* returns nil at once, with none (or no such table) it goes on to the setup.
CountBooks ==
    /\ boot.pc = "count"
    /\ boot' = IF db["books"] # {}
               THEN [boot EXCEPT !.pc = "returned"]
               ELSE [boot EXCEPT !.pc = "createSchema"]
    /\ UNCHANGED <<db, delay, due, probe,
                   now, req, pc, bookID, startTime, step, got, task, result,
                   finished, sendq, sent, received, invoked, response,
                   written>>

\* createSchema: CREATE TABLE IF NOT EXISTS for the four tables and their
\* indexes, which touches no row; an Exec that fails is returned.
createSchema ==
    /\ boot.pc = "createSchema"
    /\ \/ boot' = [boot EXCEPT !.pc = "populateInitialData"]
       \/ boot' = [boot EXCEPT !.pc = "returned", !.err = TRUE]
    /\ UNCHANGED <<db, delay, due, probe,
                   now, req, pc, bookID, startTime, step, got, task, result,
                   finished, sendq, sent, received, invoked, response,
                   written>>

\* populateInitialData issues its next INSERT OR IGNORE, which adds the row
\* unless the id has one; an Exec that fails is returned.
InsertNext ==
    /\ boot.pc = "populateInitialData"
    /\ boot.k < SeedInserts
    /\ \/ /\ db' = [db EXCEPT ![InsertTable(boot.k + 1)] =
                       @ \cup {InsertId(boot.k + 1)}]
          /\ boot' = [boot EXCEPT !.k = @ + 1]
       \/ /\ boot' = [boot EXCEPT !.pc = "returned", !.err = TRUE, !.k = 0]
          /\ UNCHANGED db
    /\ UNCHANGED <<delay, due, probe,
                   now, req, pc, bookID, startTime, step, got, task, result,
                   finished, sendq, sent, received, invoked, response,
                   written>>

\* populateInitialData has issued every INSERT and returns nil, and so do
\* initializeDatabaseIfNeeded and InitializeDatabase.
PopulateReturn ==
    /\ boot.pc = "populateInitialData"
    /\ boot.k = SeedInserts
    /\ boot' = [boot EXCEPT !.pc = "returned", !.k = 0]
    /\ UNCHANGED <<db, delay, due, probe,
                   now, req, pc, bookID, startTime, step, got, task, result,
                   finished, sendq, sent, received, invoked, response,
                   written>>

\* The process ends: killed at any point, ended by main's log.Fatal after an
\* error, or stopped while serving. The file keeps its rows.
Interrupt ==
    /\ boot.pc # "down"
    /\ boot' = [boot EXCEPT !.pc = "down", !.k = 0, !.err = FALSE]
    /\ UNCHANGED <<db, delay, due, probe,
                   now, req, pc, bookID, startTime, step, got, task, result,
                   finished, sendq, sent, received, invoked, response,
                   written>>

NextBoot ==
    \/ InitializeDatabase
    \/ CountBooks
    \/ createSchema
    \/ InsertNext
    \/ PopulateReturn
    \/ Interrupt

SpecBoot == InitBoot /\ [][NextBoot]_vars

\* ------------------------------------------------------------- properties

\* Where a request is once handleSequentialBookDetails has all four bags.
SeqAssembled == {"seq_assemble", "seq_encode", "seq_returned"}

\* Where a request is once handleConcurrentBookDetails has joined.
ConcJoined == {"conc_assemble", "conc_encode", "conc_returned"}

\* Where a request is while handleSequentialBookDetails runs or has run.
SeqPcs ==
    {"handleSequentialBookDetails", "seq_call", "seq_fetching"}
        \cup SeqAssembled

\* Where a request is while handleConcurrentBookDetails runs or has run.
ConcPcs ==
    {"handleConcurrentBookDetails", "conc_go", "conc_recv"} \cup ConcJoined

\* The bag the fetcher behind a response field returns for id.
BagOf(field, store, id) ==
    CASE field = "Metadata" -> FetchBookMetadata(store, id)
      [] field = "Pricing" -> FetchBookPricing(store, id)
      [] field = "Inventory" -> FetchBookInventory(store, id)
      [] field = "Reviews" -> FetchBookReviews(store, id)

\* The four fields an orchestrator fills.
FetchedFields == {"Metadata", "Pricing", "Inventory", "Reviews"}

\* A JSON document was written for r.
WroteJson(r) == "json" \in DOMAIN written[r]

\* An error was written for r.
WroteError(r) == "error" \in DOMAIN written[r]

\* C1: in handleConcurrentBookDetails the response is assembled and written
\* only after all four goroutines have delivered their bag: whenever the
\* response struct exists or something was written, every goroutine has
\* finished its fetch and completed its send, every fetcher was called and
\* every channel was received from.
C1_ResponseAfterAllFour ==
    \A r \in Reqs :
        (pc[r] \in ConcPcs /\ (response[r] # Unset \/ written[r] # Unset))
        => /\ \A g \in Positions : task[r][g] = "done"
           /\ \A f \in Fetchers : invoked[r][f] >= 1
           /\ \A c \in Channels : received[r][c] >= 1
           /\ Len(finished[r]) = Cardinality(Fetchers)

\* C1 witness: a concurrent response was written although the metadata
\* fetch, the first to be received, was the last to return.
C1_Witness ==
    \E r \in Reqs :
        /\ pc[r] = "conc_returned"
        /\ WroteJson(r)
        /\ finished[r] = <<2, 3, 4, 1>>

\* C2: in the concurrent orchestrator each field of the response holds
\* exactly the bag of its own fetcher (Metadata that of FetchBookMetadata,
\* and so on), whatever the order in which the fetches returned; the four
\* bags being pairwise different, none is dropped and none is in two fields.
C2_FieldsByRole ==
    \A r \in Reqs :
        pc[r] \in {"conc_encode", "conc_returned"}
        => /\ \A f \in FetchedFields :
                 response[r][f] = BagOf(f, db, bookID[r])
           /\ \A f1, f2 \in FetchedFields :
                 f1 # f2 => response[r][f1] # response[r][f2]

\* C2 witness: a concurrent response assembled after the fetches returned
\* in the reverse of the receive order, holding data and error bags.
C2_Witness ==
    \E r \in Reqs :
        /\ pc[r] = "conc_returned"
        /\ finished[r] = <<4, 3, 2, 1>>
        /\ ~IsErrorBag(response[r].Metadata)
        /\ IsErrorBag(response[r].Reviews)

\* The goroutines that are sending or have sent on channel c.
Producers(r, c) ==
    sendq[r][c] \cup {sent[r][c][i] : i \in 1..Len(sent[r][c])}

\* C3: within one concurrent aggregation every channel has at most one
\* producer and at most one send and one receive, no goroutine uses two
\* channels, fields are filled by receives only (as many fields are set as
\* receives have completed), and after the join every channel has had
\* exactly one send and exactly one receive.
C3_OneProducerPerChannel ==
    \A r \in Reqs :
        pc[r] \in ConcPcs
        => /\ \A c \in Channels :
                 /\ Cardinality(sendq[r][c]) + Len(sent[r][c]) <= 1
                 /\ received[r][c] <= 1
           /\ \A c1, c2 \in Channels :
                 c1 # c2 => Producers(r, c1) \cap Producers(r, c2) = {}
           /\ Cardinality({f \in BagFields : got[r][f] # NilMap})
                 = Cardinality({c \in Channels : received[r][c] = 1})
           /\ pc[r] \in ConcJoined
                 => \A c \in Channels :
                       Len(sent[r][c]) = 1 /\ received[r][c] = 1

\* C3 witness: a joined concurrent aggregation, one send and one receive on
\* every channel, each by a different goroutine.
C3_Witness ==
    \E r \in Reqs :
        /\ pc[r] = "conc_assemble"
        /\ \A c \in Channels : Len(sent[r][c]) = 1 /\ received[r][c] = 1
        /\ Cardinality(UNION {Producers(r, c) : c \in Channels})
               = Cardinality(Channels)

\* Some fetcher returns an error bag for the id of request r.
SomeFetchFails(r) ==
    \E f \in FetchedFields : IsErrorBag(BagOf(f, db, bookID[r]))

\* C5: when a fetcher returns an error bag, neither orchestrator skips a
\* sibling or ends early: once the bags are assembled every fetcher has been
\* called exactly once, every goroutine of the concurrent orchestrator has
\* delivered, the failing field holds the error bag and every other field
\* its own fetcher's bag; a goroutine never ends without having delivered.
C5_ErrorBagCancelsNothing ==
    \A r \in Reqs :
        SomeFetchFails(r)
        => /\ pc[r] \in SeqAssembled \cup ConcJoined
                 => /\ \A f \in Fetchers : invoked[r][f] = 1
                    /\ \A f \in FetchedFields :
                          got[r][f] = BagOf(f, db, bookID[r])
           /\ pc[r] \in ConcJoined
                 => \A g \in Positions : task[r][g] = "done"
           /\ \A g \in Positions :
                 task[r][g] = "done"
                 => \E c \in Channels : \E i \in 1..Len(sent[r][c]) :
                        sent[r][c][i] = <<r, g>>
           /\ WroteJson(r)
                 => \A f \in FetchedFields :
                        response[r][f] = BagOf(f, db, bookID[r])

\* C5 witness: a concurrent response whose pricing field is an error bag
\* while the metadata field holds data, all four fetchers called.
C5_Witness ==
    \E r \in Reqs :
        /\ pc[r] = "conc_returned"
        /\ WroteJson(r)
        /\ IsErrorBag(response[r].Pricing)
        /\ ~IsErrorBag(response[r].Metadata)
        /\ \A f \in Fetchers : invoked[r][f] = 1

\* The json keys of the four fetched bags.
FetchedKeys == {"metadata", "pricing", "inventory", "reviews"}

\* C6: in either mode every serialized aggregate has its identifier and its
\* metadata, pricing, inventory and reviews members populated: each of the
\* four is a non-empty object (a data bag or an error bag), never null, and
\* the identifier is the id of the request.
C6_FixedFieldsPopulated ==
    \A r \in Reqs :
        WroteJson(r)
        => /\ written[r].status = 200
           /\ written[r].json.book_id = bookID[r]
           /\ \A k \in FetchedKeys :
                 /\ written[r].json[k].kind = "object"
                 /\ DOMAIN written[r].json[k].members # {}

\* C6 witness: a sequential response was serialized with one member an
\* error bag and another a data bag.
C6_Witness ==
    \E r \in Reqs :
        /\ pc[r] = "seq_returned"
        /\ WroteJson(r)
        /\ IsErrorBag(written[r].json.reviews.members)
        /\ ~IsErrorBag(written[r].json.inventory.members)

\* BookDetailHandler has returned or has called an orchestrator for r.
Handled(r) == pc[r] \notin {"idle", "BookDetailHandler"}

\* C7 as claimed: a served request that carries a userId has, in its
\* recommendations member, the bag of FetchPersonalizedRecommendations for
\* (identifier, userId); one without a userId has no recommendations.
C7_RecommendationsWithUserId ==
    \A r \in Reqs :
        WroteJson(r)
        => LET userId == Get(req[r].query, "userId")
           IN IF userId = ""
              THEN written[r].json.recommendations.kind = "null"
              ELSE \E api \in ApiOutcomes :
                      written[r].json.recommendations =
                          JsonMap(FetchPersonalizedRecommendations(
                                      bookID[r], userId, api))

\* The values request r gives for the mode parameter.
SuppliedMode(r) == SuppliedModeOf(req[r])

\* No fetcher was called and no goroutine launched for r.
NothingFetched(r) ==
    /\ \A f \in Fetchers : invoked[r][f] = 0
    /\ \A g \in Positions : task[r][g] = "none"

\* r was answered with a 400 error and nothing else.
Rejected(r) ==
    /\ pc[r] = "rejected"
    /\ WroteError(r)
    /\ written[r].status = 400
    /\ response[r] = Unset

\* C8: a request that gives a mode value (a non-empty one: an empty value
\* counts as no value, see C9) other than the accepted modes is rejected
\* with an error, no fetcher is called and no goroutine is launched for it.
C8_UnacceptedModeRejected ==
    \A r \in Reqs :
        (/\ Handled(r)
         /\ SuppliedMode(r) # << >>
         /\ SuppliedMode(r)[1] \notin {"", "sequential", "concurrent"})
        => Rejected(r) /\ NothingFetched(r)

\* The path has the form /api/books/{id}/details.
WellFormedPath(path) ==
    /\ Len(path) = 8
    /\ <<path[1], path[2], path[3], path[4], path[5]>>
           = <<"/", "api", "/", "books", "/">>
    /\ path[6] # "/"
    /\ <<path[7], path[8]>> = <<"/", "details">>

\* C8 witness: a well-formed GET with mode=parallel was rejected for its
\* mode.
C8_Witness ==
    \E r \in Reqs :
        /\ Rejected(r)
        /\ req[r].method = "GET"
        /\ WellFormedPath(req[r].path)
        /\ SuppliedMode(r) = <<"parallel">>
        /\ written[r].error = "Invalid mode. Use 'sequential' or 'concurrent'"

\* BookDetailHandler accepted the URL format of r.
UrlAccepted(r) ==
    /\ Handled(r)
    /\ ~(/\ WroteError(r)
         /\ written[r].error
                = "Invalid URL Format. Expected /api/books/{id}/details")

\* The sequential orchestrator, and only it, runs or has run for r.
RanSequentialOnly(r) ==
    /\ pc[r] \in SeqPcs
    /\ \A g \in Positions : task[r][g] = "none"
    /\ \A f \in Fetchers : invoked[r][f] <= 1

\* The concurrent orchestrator, and only it, runs or has run for r.
RanConcurrentOnly(r) ==
    /\ pc[r] \in ConcPcs
    /\ \A f \in Fetchers : invoked[r][f] <= 1

\* C9 as claimed: an absent mode or "sequential" runs the sequential
\* orchestrator, "concurrent" the concurrent one, and every other supplied
\* value, the empty one included, is rejected.
C9_EmptyModeRejected ==
    \A r \in Reqs :
        UrlAccepted(r)
        => LET m == SuppliedMode(r)
           IN /\ (m = << >> \/ m[1] = "sequential") => RanSequentialOnly(r)
              /\ (m # << >> /\ m[1] = "concurrent") => RanConcurrentOnly(r)
              /\ (m # << >> /\ m[1] \notin {"sequential", "concurrent"})
                    => Rejected(r) /\ NothingFetched(r)

\* C9 amended: exactly one orchestrator runs per accepted request, the
\* sequential one when the mode parameter is absent, empty or exactly
\* "sequential", the concurrent one when it is exactly "concurrent"; every
\* other value, differently-cased spellings included, is rejected and not
\* coerced to a default.
C9_ModeSelector ==
    \A r \in Reqs :
        UrlAccepted(r)
        => LET m == SuppliedMode(r)
           IN /\ (m = << >> \/ m[1] \in {"", "sequential"})
                    => RanSequentialOnly(r)
              /\ (m # << >> /\ m[1] = "concurrent") => RanConcurrentOnly(r)
              /\ (m # << >> /\ m[1] \notin {"", "sequential", "concurrent"})
                    => Rejected(r) /\ NothingFetched(r)

\* C9 witness: a request with an empty mode value was served by the
\* sequential orchestrator.
C9_Witness ==
    \E r \in Reqs :
        /\ pc[r] = "seq_returned"
        /\ WroteJson(r)
        /\ SuppliedMode(r) = <<"">>

\* C10 as claimed: a request whose path is not of the form
\* /api/books/{id}/details or whose method is not GET is rejected and no
\* fetcher is called for it.
C10_MalformedRejected ==
    \A r \in Reqs :
        (/\ Handled(r)
         /\ (req[r].method # "GET" \/ ~WellFormedPath(req[r].path)))
        => Rejected(r) /\ NothingFetched(r)

\* C4: for the same identifier, a document written by the sequential
\* orchestrator and one written by the concurrent orchestrator have the
\* same book_id, metadata, pricing, inventory and reviews; only duration
\* may differ.
C4_SameFieldsInBothModes ==
    \A a, b \in Reqs :
        (/\ pc[a] = "seq_returned"
         /\ pc[b] = "conc_returned"
         /\ WroteJson(a)
         /\ WroteJson(b)
         /\ bookID[a] = bookID[b])
        => /\ written[a].json.book_id = written[b].json.book_id
           /\ \A k \in FetchedKeys :
                 written[a].json[k] = written[b].json[k]

\* C4 witness: both orchestrators have answered for the same id, with data
\* in one member and an error bag in another, and with different durations.
C4_Witness ==
    \E a, b \in Reqs :
        /\ pc[a] = "seq_returned"
        /\ pc[b] = "conc_returned"
        /\ WroteJson(a)
        /\ WroteJson(b)
        /\ bookID[a] = bookID[b]
        /\ ~IsErrorBag(written[a].json.pricing.members)
        /\ IsErrorBag(written[b].json.inventory.members)
        /\ written[a].json.duration # written[b].json.duration

\* ------------------------------------------------------------ unknown ids

\* The id of r has no row in any table of the store.
UnknownId(r) == \A t \in Tables : bookID[r] \notin db[t]

\* The four members of a document that hold the fetched bags.
FetchedMembers(doc) ==
    {doc.metadata, doc.pricing, doc.inventory, doc.reviews}

\* C11: a request for an id the store does not know is not a malformed
\* request. In both orchestrators every bag obtained for it is an error bag,
\* no 400 is written, and once the orchestrator has returned the answer is a
\* status-200 document whose four bag members are error bags and whose
\* duration is not negative.
C11_UnknownIdStillSucceeds ==
    \A r \in Reqs :
        pc[r] \in SeqPcs \cup ConcPcs /\ UnknownId(r) =>
            /\ ~WroteError(r)
            /\ \A f \in FetchedFields :
                   got[r][f] # NilMap => IsErrorBag(got[r][f])
            /\ \A g \in Positions :
                   result[r][g] # NilMap => IsErrorBag(result[r][g])
            /\ pc[r] \in {"seq_returned", "conc_returned"} =>
                   /\ written[r].status = 200
                   /\ \A m \in FetchedMembers(written[r].json) :
                          m.kind = "object" /\ IsErrorBag(m.members)
                   /\ written[r].json.duration >= 0

\* C11 happens: the concurrent orchestrator has answered a request for id 9
\* with a status-200 document of four error bags.
C11_Witness ==
    /\ pc["r1"] = "conc_returned"
    /\ bookID["r1"] = "9"
    /\ UnknownId("r1")
    /\ written["r1"].status = 200
    /\ \A m \in FetchedMembers(written["r1"].json) : IsErrorBag(m.members)

\* ------------------------------------------------------------ error bags

\* C12 as claimed: every bag returned on a failure path of one of the five
\* fetchers has the single key error, and no bag returned on a success path
\* has the key error.
C12_SingleErrorKey ==
    probe # Unset =>
        IF probe.failure = "none"
        THEN "error" \notin DOMAIN probe.bag
        ELSE DOMAIN probe.bag = {"error"}

\* C12, amended: every bag returned on a failure path carries the key error
\* and no bag returned on a success path does; the failure bag has no other
\* key, except that FetchPersonalizedRecommendations adds the key source
\* when the GET to the quote API fails.
C12_FailureBagsCarryError ==
    probe # Unset =>
        CASE probe.failure = "none" -> "error" \notin DOMAIN probe.bag
          [] probe.failure = "network_error" ->
                 DOMAIN probe.bag = {"error", "source"}
          [] OTHER -> DOMAIN probe.bag = {"error"}

\* C12 happens: each kind of failure was seen, here the failed GET of
\* FetchPersonalizedRecommendations.
C12_Witness ==
    /\ probe # Unset
    /\ probe.fetcher = "FetchPersonalizedRecommendations"
    /\ probe.failure = "network_error"
    /\ IsErrorBag(probe.bag)

\* ----------------------------------------------------------- after the join

\* The goroutines of r whose send has completed.
SendCompleted(r) ==
    UNION {{sent[r][c][i] : i \in 1..Len(sent[r][c])} : c \in Channels}

\* C13: once handleConcurrentBookDetails has joined, none of its four
\* goroutines is pending: each was launched, has its fetcher's bag, has
\* completed its send and has ended; no goroutine is blocked on a channel,
\* then or after the handler has returned.
C13_NoTaskPendingAfterJoin ==
    \A r \in Reqs :
        pc[r] \in ConcJoined
        => /\ \A g \in Positions :
                 /\ task[r][g] \notin {"none", "ready", "fetching", "sending"}
                 /\ result[r][g] # NilMap
                 /\ <<r, g>> \in SendCompleted(r)
           /\ \A c \in Channels : sendq[r][c] = {}

\* C13 happens: the join is reached after the goroutines returned in the
\* reverse of the receive order, so three of them had to wait in their send.
C13_Witness ==
    /\ pc["r1"] = "conc_assemble"
    /\ finished["r1"] = <<4, 3, 2, 1>>
    /\ SendCompleted("r1") = {"r1"} \X Positions

\* ------------------------------------------------- requests do not mix

\* The goroutines that have sent or are blocked sending on a channel of the
\* call serving r.
SendersTo(r) == UNION {Producers(r, c) : c \in Channels}

\* C14: with two concurrent-mode aggregations for different ids under way at
\* the same time, each works with its own four goroutines and its own four
\* channels: only goroutines launched for a request send on its channels,
\* every bag a goroutine holds, every bag received and every bag of the
\* response is the one its fetcher returns for that request's id, and each
\* request calls each fetcher at most once.
C14_RequestsDoNotMix ==
    \A r \in Reqs :
        pc[r] \in ConcPcs
        => /\ \A s \in SendersTo(r) : s[1] = r
           /\ \A g \in Positions :
                 result[r][g] # NilMap
                 => result[r][g] = BagOf(RecvField(g), db, bookID[r])
           /\ \A f \in FetchedFields :
                 got[r][f] # NilMap => got[r][f] = BagOf(f, db, bookID[r])
           /\ \A f \in Fetchers : invoked[r][f] <= 1
           /\ WroteJson(r)
                 => /\ written[r].json.book_id = bookID[r]
                    /\ \A f \in FetchedFields :
                          response[r][f] = BagOf(f, db, bookID[r])

\* C14 happens: both aggregations are in the middle of their receives at the
\* same time, for different ids; each has received its metadata bag, which
\* differs from the other's, while its reviews goroutine is blocked sending.
C14_Witness ==
    /\ pc["r1"] = "conc_recv"
    /\ pc["r2"] = "conc_recv"
    /\ bookID["r1"] # bookID["r2"]
    /\ got["r1"]["Metadata"] # NilMap
    /\ got["r2"]["Metadata"] # NilMap
    /\ got["r1"]["Metadata"] # got["r2"]["Metadata"]
    /\ sendq["r1"]["reviewsChannel"] = {<<"r1", 4>>}
    /\ sendq["r2"]["reviewsChannel"] = {<<"r2", 4>>}

\* ----------------------------------------------------------------- latency

\* C15: with the fetchers sleeping 80, 120, 150 and 100 milliseconds and no
\* other step taking time, the duration the sequential orchestrator reports
\* is at least their sum, 450, the duration the concurrent orchestrator
\* reports is at least the longest, 150, and less than the sum, and of two
\* answers, one from each orchestrator, the concurrent one reports the
\* strictly smaller duration.
C15_ConcurrentFasterThanSequential ==
    LET total == 80 + 120 + 150 + 100
        longest == 150
    IN /\ \A r \in Reqs :
             /\ pc[r] = "seq_returned"
                    => written[r].json.duration >= total
             /\ pc[r] = "conc_returned"
                    => /\ written[r].json.duration >= longest
                       /\ written[r].json.duration < total
       /\ \A r, o \in Reqs :
             pc[r] = "seq_returned" /\ pc[o] = "conc_returned"
             => written[o].json.duration < written[r].json.duration

\* C15 happens: the same book was answered by the sequential orchestrator in
\* 450 milliseconds and then by the concurrent orchestrator in 150.
C15_Witness ==
    /\ pc["r1"] = "seq_returned"
    /\ pc["r2"] = "conc_returned"
    /\ written["r1"].json.duration = 450
    /\ written["r2"].json.duration = 150
    /\ now = 600

\* ------------------------------------------------------------- idempotence

\* What was written for r, with the duration of a document left out.
WrittenButDuration(r) ==
    IF WroteJson(r)
    THEN [status |-> written[r].status,
          json |-> [m \in DOMAIN written[r].json \ {"duration"} |->
                        written[r].json[m]]]
    ELSE written[r]

\* Two answered requests that were the same request got the same answer,
\* the duration apart.
SameAnswerButDuration ==
    \A r, o \in Reqs :
        pc[r] \in Returned /\ pc[o] \in Returned /\ req[r] = req[o]
        => WrittenButDuration(r) = WrittenButDuration(o)

\* C16: serving is idempotent. A request repeated (same id, same mode)
\* against the store gets an answer equal to the first in every member but
\* the duration, and no step of serving a request changes the store.
C16_RepeatGivesSameAnswer ==
    /\ []SameAnswerButDuration
    /\ [][db' = db]_vars

\* C16 happens: the same request for book 1 was answered twice with a
\* document, the two differing in their duration and in nothing else.
C16_Witness ==
    /\ pc["r1"] \in {"seq_returned", "conc_returned"}
    /\ pc["r2"] = pc["r1"]
    /\ req["r1"] = req["r2"]
    /\ bookID["r1"] = "1"
    /\ written["r1"].json.duration # written["r2"].json.duration
    /\ WrittenButDuration("r1") = WrittenButDuration("r2")

\* ------------------------------------------------------ order of the calls

\* The order in which the sequential orchestrator is to call the fetchers,
\* and the field each fills.
CallOrder ==
    <<"FetchBookMetadata", "FetchBookPricing",
      "FetchBookInventory", "FetchBookReviews">>
FieldOrder == <<"Metadata", "Pricing", "Inventory", "Reviews">>

\* The calls of the sequential orchestrator serving r that were made and
\* have not returned.
SeqInFlight(r) ==
    {k \in 1..Len(CallOrder) :
        invoked[r][CallOrder[k]] >= 1 /\ got[r][FieldOrder[k]] = NilMap}

\* C17: handleSequentialBookDetails calls the fetchers strictly in the order
\* metadata, pricing, inventory, reviews: a fetcher has been called only if
\* the one before it has been called and has returned its bag, at most one
\* call is in flight at any time, and no goroutine is launched.
C17_SequentialOrder ==
    \A r \in Reqs :
        pc[r] \in SeqPcs
        => /\ \A k \in 2..Len(CallOrder) :
                 invoked[r][CallOrder[k]] >= 1
                 => /\ invoked[r][CallOrder[k - 1]] >= 1
                    /\ got[r][FieldOrder[k - 1]] # NilMap
           /\ Cardinality(SeqInFlight(r)) <= 1
           /\ pc[r] = "seq_fetching" <=> SeqInFlight(r) # {}
           /\ \A g \in Positions : task[r][g] = "none"

\* C17 happens: the inventory call is in flight, metadata and pricing have
\* returned and reviews has not been called.
C17_Witness ==
    /\ pc["r1"] = "seq_fetching"
    /\ SeqInFlight("r1") = {3}
    /\ got["r1"]["Metadata"] # NilMap
    /\ got["r1"]["Pricing"] # NilMap
    /\ invoked["r1"]["FetchBookReviews"] = 0

\* ------------------------------------------------------- calls per request

\* C18: in both orchestrators every accepted request calls each of the four
\* fetchers exactly once: no fetcher is ever called a second time, an error
\* bag is not followed by a retry, and when the orchestrator has its four
\* bags, and from then on, each fetcher has been called once; a rejected
\* request calls none.
C18_EachFetcherOnce ==
    \A r \in Reqs :
        /\ \A f \in Fetchers : invoked[r][f] <= 1
        /\ pc[r] \in SeqAssembled \cup ConcJoined
               => \A f \in Fetchers : invoked[r][f] = 1
        /\ pc[r] \in {"idle", "BookDetailHandler", "rejected"}
               => \A f \in Fetchers : invoked[r][f] = 0

\* C18 happens: a request whose four fetches all failed was answered by the
\* concurrent orchestrator, after one call to each fetcher.
C18_Witness ==
    /\ pc["r1"] = "conc_returned"
    /\ \A f \in FetchedFields : IsErrorBag(got["r1"][f])
    /\ \A f \in Fetchers : invoked["r1"][f] = 1

\* ---------------------------------------------------- what Duration spans

\* Where a request is before its orchestrator has read the clock.
BeforeStart ==
    {"idle", "BookDetailHandler", "rejected",
     "handleSequentialBookDetails", "handleConcurrentBookDetails"}

\* C19: in both orchestrators startTime is read before any fetcher is called
\* (no call is made before the orchestrator is past its first statement, and
\* a call that takes time was made at or after startTime), Duration is
\* computed when all four bags are there and no earlier than any fetch can
\* have returned, and the document written carries that Duration; so the
\* Duration of the concurrent orchestrator is at least the time any single
\* fetcher took, however the goroutines and the clock interleave.
C19_DurationSpansFetches ==
    \A r \in Reqs :
        /\ \A f \in Fetchers :
               invoked[r][f] >= 1
               => /\ pc[r] \notin BeforeStart
                  /\ delay[f] > 0 => due[r][f] - delay[f] >= startTime[r]
        /\ response[r] # Unset
               => /\ \A f \in FetchedFields : response[r][f] # NilMap
                  /\ \A f \in Fetchers :
                         delay[f] > 0
                         => startTime[r] + response[r].Duration >= due[r][f]
        /\ WroteJson(r)
               => /\ response[r] # Unset
                  /\ written[r].json.duration = response[r].Duration
        /\ pc[r] \in ConcPcs /\ response[r] # Unset
               => \A f \in Fetchers : response[r].Duration >= delay[f]

\* C19 happens: the concurrent orchestrator started after the clock had
\* advanced, one of its fetches took MaxLatency and its answer reports a
\* Duration of at least that.
C19_Witness ==
    /\ pc["r1"] = "conc_returned"
    /\ startTime["r1"] > 0
    /\ \E f \in Fetchers :
           /\ delay[f] = MaxLatency
           /\ due["r1"][f] = startTime["r1"] + MaxLatency
    /\ written["r1"].json.duration >= MaxLatency

\* ------------------------------------------------------------ the empty id

\* C20 as claimed: no fetcher is called for a request whose id is the empty
\* string; a request whose id segment is empty is rejected before any
\* fetcher is reached.
C20_NoFetchWithEmptyId ==
    \A r \in Reqs :
        (\E f \in Fetchers : invoked[r][f] >= 1) => bookID[r] # ""

\* ---------------------------------------------------------------- progress

\* C21: when every call of a fetcher returns and every goroutine that can
\* run is run, a request that has entered handleConcurrentBookDetails is
\* eventually answered with its document, in whatever order the fetches
\* return: the unbuffered channels and the fixed receive order cannot
\* deadlock.
C21_ConcurrentEventuallyWrites ==
    \A r \in Reqs :
        (pc[r] = "handleConcurrentBookDetails")
            ~> (pc[r] = "conc_returned" /\ WroteJson(r))

\* C21 happens: the document was written although the fetches returned in an
\* order far from the receive order, reviews first and metadata last but one.
C21_Witness ==
    /\ pc["r1"] = "conc_returned"
    /\ WroteJson("r1")
    /\ finished["r1"] = <<4, 3, 1, 2>>

\* ----------------------------------------------------- order of the sends

\* The channels in the order the sends are to complete.
SendOrder ==
    <<"metadataChannel", "pricingChannel",
      "inventoryChannel", "reviewsChannel">>

\* C22: in handleConcurrentBookDetails the sends complete in the order
\* metadata, pricing, inventory, reviews whatever the order in which the
\* fetches return: a send on a channel has completed only if the send on
\* every channel before it has, a goroutine whose fetch has returned is
\* blocked in its send or has had it received, never past it on its own,
\* and a launched goroutine can always go on to call its fetcher, whatever
\* the other goroutines are doing.
C22_SendsCompleteInReceiveOrder ==
    \A r \in Reqs :
        pc[r] \in ConcPcs
        => /\ \A k \in 2..Len(SendOrder) :
                 Len(sent[r][SendOrder[k]]) >= 1
                 => /\ Len(sent[r][SendOrder[k - 1]]) >= 1
                    /\ received[r][SendOrder[k - 1]] >= 1
           /\ \A k \in 1..Len(SendOrder) :
                 Len(sent[r][SendOrder[k]]) = received[r][SendOrder[k]]
           /\ \A g \in Positions :
                 /\ task[r][g] = "sending"
                        <=> \E c \in Channels : <<r, g>> \in sendq[r][c]
                 /\ task[r][g] = "done" <=> <<r, g>> \in SendCompleted(r)
                 /\ task[r][g] = "ready" => ENABLED GoFetch(r, g)

\* C22 happens: the reviews fetch returned first and its goroutine is still
\* blocked in its send after the metadata bag was received, while the
\* pricing and inventory fetches are in flight together.
C22_Witness ==
    /\ pc["r1"] = "conc_recv"
    /\ finished["r1"] = <<4, 1>>
    /\ task["r1"] = <<"done", "fetching", "fetching", "sending">>
    /\ received["r1"]["metadataChannel"] = 1
    /\ sendq["r1"]["reviewsChannel"] = {<<"r1", 4>>}

\* --------------------------------------------------- the initialised store

\* Every seeded id has a row in every table.
FullySeeded ==
    \A t \in Tables : \A i \in 1..Len(SeedIds) : SeedIds[i] \in db[t]

\* C23 as claimed: whenever InitializeDatabase has returned without error,
\* every seeded id has a row in each of the four tables, also after an
\* earlier run was interrupted part of the way.
C23_ReturnedMeansSeeded ==
    boot.pc = "returned" /\ ~boot.err => FullySeeded

====
